---- MODULE Spec2Model ----
(***************************************************************************)
(* PhotoGnark: proof-carrying-data image provenance (Generator, Prover,    *)
(* Verifier, the Crop compliance circuit and the image type).              *)
(*                                                                         *)
(* The circuit backend (witness construction, compile, setup, prove,       *)
(* verify) and the plain signature scheme are external libraries.  They    *)
(* are modelled symbolically: a signature is the pair (signer key,         *)
(* message) and verifies under exactly that key and message; a circuit     *)
(* proof is the pair (setup, public witness) and exists only when the      *)
(* circuit's Define is satisfied by the assignment.  Circuit gadgets       *)
(* (Cmp, IsZero, And, Select, Sub) are computed over the integers.         *)
(***************************************************************************)
EXTENDS Integers, Sequences, FiniteSets, TLC

\* ------------------------------------------------------------------ bounds
\* Side of the pixel grid.  The program fixes N = 16; the model checks the
\* same code on a smaller grid.
N == 3
\* Largest coordinate given to InArea in the area-membership harness.
MaxCoord == 6
\* Signing key pairs that may be generated (each Sign call draws a fresh one).
MaxKeys == 2
\* Pictures the camera may take (each allocates a fresh metadata map).
MaxPictures == 1
\* Proof values callers may hold at once.
MaxHeld == 2
\* SetPixel calls made on one image in the pixel-access harness.
MaxWrites == 2

\* ------------------------------------------------------------------ values
Idx == 0 .. (N - 1)

\* Transformation tags (transformation.go).
Identity == 0
Crop == 1

\* An optional Go value (interface, slice) is a sequence: empty when nil.
Nil == << >>
Some(v) == <<v>>
\* A key, setup or metadata-map reference is a positive number; 0 is nil.
NilRef == 0
\* A cell of a FrontendImage that was never assigned (zero-valued FrontendPixel).
Undef == << >>

RGBPixel(r, g, b) == <<r, g, b>>
blackPixel == RGBPixel(0, 0, 0)
whitePixel == RGBPixel(255, 255, 255)

\* ------------------------------------------------- area-membership predicate
\* Backend comparison gadget: 1 if a > b, 0 if a = b, -1 if a < b.
Cmp(a, b) == IF a > b THEN 1 ELSE IF a = b THEN 0 ELSE -1
\* Backend gadgets: booleans are the field values 0 and 1.
IsZero(v) == IF v = 0 THEN 1 ELSE 0
And(a, b) == a * b
Select(c, a, b) == IF c = 1 THEN a ELSE b
Sub(a, b) == a - b

Fr_Location(x, y) == [X |-> x, Y |-> y]
Fr_SquareArea(tl, br) == [topLeft |-> tl, bottomRight |-> br]

InArea(x, y, area) ==
    LET inCropAreaX ==
            And(And(IsZero(Cmp(area.topLeft.X, x)),
                    IsZero(Cmp(x, area.bottomRight.X))),
                And(IsZero(Cmp(area.topLeft.X, x) + 1),
                    IsZero(Cmp(x, area.bottomRight.X) + 1)))
        inCropAreaY ==
            And(And(IsZero(Cmp(area.topLeft.Y, y)),
                    IsZero(Cmp(y, area.bottomRight.Y))),
                And(IsZero(Cmp(area.topLeft.Y, y) + 1),
                    IsZero(Cmp(y, area.bottomRight.Y) + 1)))
    IN  And(inCropAreaX, inCropAreaY)

\* ------------------------------------------------------------------ image
\* type I: Pixels[y][x] is the pixel of row y, column x; M refers to a
\* metadata map on the heap (Go maps are shared by every copy of the struct).
I(pixels, m) == [Pixels |-> pixels, M |-> m]

AllPixels(p) == [y \in Idx |-> [x \in Idx |-> p]]

\* NewImage: zero pixels and a fresh, empty map.  The zero value of I (as in
\* Proof{}) has zero pixels and a nil map.
ZeroImage == I(AllPixels(blackPixel), NilRef)

\* A value stored in a map[string]interface{} carries its dynamic type.
IntVal(n) == [int |-> n]
StrVal(str) == [string |-> str]
\* Contents of a metadata map.  AllWhiteImage writes Author, N, height and width.
Metadata(w, h) ==
    [Author |-> StrVal("John Doe"), N |-> IntVal(N),
     height |-> IntVal(h), width |-> IntVal(w)]

AllWhiteImage(m) == I(AllPixels(whitePixel), m)

\* SetPixel with the two indices of the array taken the other way round.
SetPixel_Transposed(pixels, x, y, color) ==
    IF x >= 0 /\ x < N /\ y >= 0 /\ y < N
    THEN [pixels EXCEPT ![x][y] = color]
    ELSE pixels

SetPixel(pixels, x, y, color) ==
    IF x >= 0 /\ x < N /\ y >= 0 /\ y < N
    THEN [pixels EXCEPT ![y][x] = color]
    ELSE pixels

GetPixel(pixels, x, y) ==
    IF x >= 0 /\ x < N /\ y >= 0 /\ y < N THEN pixels[y][x] ELSE RGBPixel(0, 0, 0)

\* img.M[k].(int): md is the map's contents, Nil for a nil map.  ok is false
\* for a nil map, a missing key and a value that is not an int.
AsInt(md, k) ==
    IF md # Nil /\ k \in DOMAIN md[1] /\ "int" \in DOMAIN md[1][k]
    THEN [ok |-> TRUE, v |-> md[1][k].int]
    ELSE [ok |-> FALSE, v |-> 0]

\* I.Crop's guards without the test that the corners are in order.
CropFails_NoOrderCheck(md, x0, y0, x1, y1) ==
    LET width == AsInt(md, "width")
        height == AsInt(md, "height")
    IN  \/ ~width.ok \/ ~height.ok
        \/ x0 < 0 \/ y0 < 0 \/ x1 >= width.v \/ y1 >= height.v

\* I.Crop's two guards.
CropFails(md, x0, y0, x1, y1) ==
    LET width == AsInt(md, "width")
        height == AsInt(md, "height")
    IN  \/ ~width.ok \/ ~height.ok
        \/ x0 < 0 \/ y0 < 0 \/ x1 >= width.v \/ y1 >= height.v \/ x0 > x1 \/ y0 > y1

\* I.Crop's pixel result when the copy to temp forgets the offset (x0, y0).
CropPixels_NoTranslate(pixels, x0, y0, x1, y1) ==
    LET cropWidth == x1 - x0 + 1
        cropHeight == y1 - y0 + 1
    IN  [y \in Idx |-> [x \in Idx |->
            IF y < cropHeight /\ x < cropWidth THEN pixels[y][x] ELSE blackPixel]]

\* I.Crop's pixel result without the loop that blackens the image.
CropPixels_NoBlacken(pixels, x0, y0, x1, y1) ==
    LET cropWidth == x1 - x0 + 1
        cropHeight == y1 - y0 + 1
    IN  [y \in Idx |-> [x \in Idx |->
            IF y < cropHeight /\ x < cropWidth THEN pixels[y0 + y][x0 + x]
            ELSE pixels[y][x]]]

\* I.Crop's pixel result: copy the rectangle to temp, blacken, move temp to the
\* top-left corner.
CropPixels(pixels, x0, y0, x1, y1) ==
    LET cropWidth == x1 - x0 + 1
        cropHeight == y1 - y0 + 1
        temp == [y \in Idx |-> [x \in Idx |->
                    IF y < cropHeight /\ x < cropWidth
                    THEN pixels[y0 + y][x0 + x] ELSE blackPixel]]
    IN  [y \in Idx |-> [x \in Idx |->
            IF y < cropHeight /\ x < cropWidth THEN temp[y][x] ELSE blackPixel]]

\* I.Crop without its last loop: the image stays blackened.
ImageCrop_Blackened(pixels, md, x0, y0, x1, y1) ==
    IF CropFails(md, x0, y0, x1, y1)
    THEN [err |-> TRUE, Pixels |-> pixels, md |-> md]
    ELSE [err |-> FALSE,
          Pixels |-> AllPixels(blackPixel),
          md |-> Some([md[1] EXCEPT !.width = IntVal(x1 - x0 + 1),
                                    !.height = IntVal(y1 - y0 + 1)])]

\* I.Crop: [err, Pixels, md]; on error nothing changes.
ImageCrop(pixels, md, x0, y0, x1, y1) ==
    IF CropFails(md, x0, y0, x1, y1)
    THEN [err |-> TRUE, Pixels |-> pixels, md |-> md]
    ELSE [err |-> FALSE,
          Pixels |-> CropPixels(pixels, x0, y0, x1, y1),
          md |-> Some([md[1] EXCEPT !.width = IntVal(x1 - x0 + 1),
                                    !.height = IntVal(y1 - y0 + 1)])]

\* ToByte: the JSON encoding holds the full grid and the map's contents.
ToByte(pixels, md) == [Pixels |-> pixels, M |-> md]
\* ToBigEndian: the JSON bytes reduced to one field element and marshalled.
ToBigEndian(pixels, md) == <<"fr", ToByte(pixels, md)>>
\* ToFrontendImage copies every pixel, cell by cell.
ToFrontendImage(pixels) == [y \in Idx |-> [x \in Idx |-> pixels[y][x]]]

\* ------------------------------------------------------------ transformation
Transformation(tag, params) == [T |-> tag, Params |-> params]
\* A Go map[string]int: a partial function; a missing key (or a nil map) reads 0.
MapGet(m, k) == IF k \in DOMAIN m THEN m[k] ELSE 0
NilParams == [k \in {} |-> 0]
ParamMap(x0, y0, x1, y1) ==
    [k \in {"x0", "y0", "x1", "y1"} |->
        IF k = "x0" THEN x0 ELSE IF k = "y0" THEN y0 ELSE IF k = "x1" THEN x1 ELSE y1]

CropParams(n, x0, y0, x1, y1) == [N |-> n, X0 |-> x0, Y0 |-> y0, X1 |-> x1, Y1 |-> y1]

\* Transformation.ToFr: the four bounds are read from the map; N is not set.
ToFr(t) ==
    [T |-> t.T,
     Params |-> CropParams(Nil, MapGet(t.Params, "x0"), MapGet(t.Params, "y0"),
                           MapGet(t.Params, "x1"), MapGet(t.Params, "y1"))]

\* The override both Generator and the inductive step of Prover apply.
IdentityParams(frT) ==
    [frT EXCEPT !.Params.X0 = 0, !.Params.Y0 = 0,
                !.Params.X1 = N - 1, !.Params.Y1 = N - 1]

\* ------------------------------------------------------------ signatures
\* Sign(secretKey, msg) and PublicKey.Verify(sig, msg); sig is optional.
SignMsg(key, msg) == Some([signer |-> key, msg |-> msg])
SigVerify(publicKey, sig, msg) ==
    /\ sig # Nil
    /\ publicKey # NilRef
    /\ sig[1].signer = publicKey
    /\ sig[1].msg = msg

\* ------------------------------------------------------------ Crop circuit
CropCircuit(pub, sig, bytes, frImage, croppedIn, params) ==
    [PublicKey |-> pub, ImageSignature |-> sig, ImageBytes |-> bytes,
     FrImage |-> frImage, CroppedImage_in |-> croppedIn, Params |-> params]

\* The destination coordinate CropFrontendImage computes for the point (x, y).
NewX(x, y, params) == Sub(x, params.X0)
NewY(x, y, params) == Sub(x, params.Y0)

\* State of CropFrontendImage's traversal: the grid built so far and whether an
\* index expression left the array (a run-time panic inside Define).
CropStart == [img |-> [a \in Idx |-> [b \in Idx |-> Undef]], fault |-> FALSE]

\* One iteration of the loop body at (x, y).  nRead is the value the backend
\* reads for Params.N, which no caller assigns.
CropIter(st, circuit, nRead, x, y) ==
    LET zero == 0
        one == 1
        N_minus_one == Sub(nRead, one)
        oldImage == circuit.FrImage
        cropArea == Fr_SquareArea(Fr_Location(circuit.Params.X0, circuit.Params.Y0),
                                  Fr_Location(circuit.Params.X1, circuit.Params.Y1))
        imageBounds == Fr_SquareArea(Fr_Location(zero, zero),
                                     Fr_Location(N_minus_one, N_minus_one))
        inCropArea == InArea(x, y, cropArea)
        newX == NewX(x, y, circuit.Params)
        newY == NewY(x, y, circuit.Params)
        inBounds == InArea(newX, newY, imageBounds)
        currentPixel == oldImage[x][y]
        chan(c) == Select(inBounds, Select(inCropArea, currentPixel[c], blackPixel[c]),
                          blackPixel[c])
    IN  IF st.fault THEN st
        ELSE IF newX \notin Idx \/ newY \notin Idx THEN [st EXCEPT !.fault = TRUE]
        ELSE [st EXCEPT !.img[newX][newY] = <<chan(1), chan(2), chan(3)>>]

\* The traversal after k iterations: y is the outer loop, x the inner one.
RECURSIVE CropLoop(_, _, _)
CropLoop(circuit, nRead, k) ==
    IF k = 0 THEN CropStart
    ELSE CropIter(CropLoop(circuit, nRead, k - 1), circuit, nRead,
                  (k - 1) % N, (k - 1) \div N)

CropFrontendImage(circuit, nRead) == CropLoop(circuit, nRead, N * N)

\* CropCircuit.Define on an assignment: "fault" when the traversal panics,
\* "unsat" when an equality assertion or the signature gadget fails (an
\* unassigned cell equals no pixel), "ok" otherwise.
Define(circuit, nRead) ==
    LET croppedImage_out == CropFrontendImage(circuit, nRead)
    IN  IF croppedImage_out.fault THEN "fault"
        ELSE IF \E x \in Idx, y \in Idx :
                    \/ croppedImage_out.img[x][y] = Undef
                    \/ circuit.CroppedImage_in[x][y] # croppedImage_out.img[x][y]
             THEN "unsat"
        ELSE IF ~SigVerify(circuit.PublicKey, circuit.ImageSignature, circuit.ImageBytes)
             THEN "unsat"
        ELSE "ok"

\* ------------------------------------------------------------ proof backend
\* The public part of a CropCircuit assignment (the fields tagged public).
PublicWitness(circuit) ==
    [PublicKey |-> circuit.PublicKey, ImageSignature |-> circuit.ImageSignature]

\* groth16.Verify: nil error (TRUE) only for a proof made under the setup the
\* verifying key belongs to, for exactly this public witness.
Groth16Verify(proof, verifyingKey, publicWitness) ==
    /\ proof # Nil
    /\ verifyingKey # NilRef
    /\ publicWitness # Nil
    /\ proof[1].setup = verifyingKey
    /\ proof[1].pub = publicWitness[1]

\* A circuit proof made under some other setup: what a caller without a
\* valid prior proof can put in the PCD_proof field.
ForeignProof == Some([setup |-> NilRef - 1, pub |-> PublicWitness(
                    CropCircuit(NilRef, Nil, Nil, Nil, Nil, Nil))])

\* Values the backend may read for a circuit variable that was never assigned.
UnassignedReads == {0, N}
\* Outcome of frontend.NewWitness on a circuit whose Params.N is unassigned:
\* Nil for an error (no witness), else the value taken for N.
WitnessOutcomes == {Nil} \cup {Some(v) : v \in UnassignedReads}

\* ------------------------------------------------------------ Proof
Z(image, publicKey) == [Image |-> image, PublicKey |-> publicKey]
Proof(pcd, z, sig, pw) ==
    [PCD_proof |-> pcd, Z |-> z, ImageSignature |-> sig, Public_Witness |-> pw]
\* Proof{}: every field zero-valued.
EmptyProof == Proof(Nil, Z(ZeroImage, NilRef), Nil, Nil)

\* Contents of the map an image refers to, in heap h.
MapOf(h, image) == IF image.M = NilRef THEN Nil ELSE Some(h[image.M])

\* gen.PK_PP, gen.VK_PP
PK_PP(provingKey, publicKey) == [ProvingKey |-> provingKey, PublicKey |-> publicKey]
VK_PP(verifyingKey, publicKey) == [VerifyingKey |-> verifyingKey, PublicKey |-> publicKey]

\* The tail both branches of Prover share: NewWitness, Compile, Prove, Public.
\* Every error is printed and execution continues; when NewWitness fails the
\* witness is nil and secret_witness.Public() is a nil dereference ("panic").
ProvePipeline(circuit, provingKey, wit) ==
    IF wit = Nil
    THEN [outcome |-> "panic", witnessErr |-> TRUE, compileErr |-> FALSE,
          proveErr |-> FALSE, proof_out |-> Nil, publicWitness |-> Nil]
    ELSE LET d == Define(circuit, wit[1])
             good == d = "ok" /\ provingKey # NilRef
         IN  [outcome |-> "returned", witnessErr |-> FALSE,
              compileErr |-> (d = "fault"), proveErr |-> ~good,
              proof_out |-> IF good
                            THEN Some([setup |-> provingKey, pub |-> PublicWitness(circuit)])
                            ELSE Nil,
              publicWitness |-> Some(PublicWitness(circuit))]

\* The pipeline's record when Prover never reaches it.
NoRun ==
    [outcome |-> "none", witnessErr |-> FALSE, compileErr |-> FALSE,
     proveErr |-> FALSE, proof_out |-> Nil, publicWitness |-> Nil]

\* ------------------------------------------------------------ Prover
\* gen.Sign: a fresh key pair (key) signs the image's big-endian encoding.
Sign(image, md, key) ==
    LET big_endian_bytes_Image == ToBigEndian(image.Pixels, md)
    IN  [normalSignature |-> SignMsg(key, big_endian_bytes_Image),
         publicKey |-> key, secretKey |-> key,
         big_endian_bytes_Image |-> big_endian_bytes_Image]

\* Prover's first branch (proof_in.PCD_proof == nil).
ProverBase(pk_pcd, proof_in, t, h, wit) ==
    LET image == proof_in.Z.Image
        circuit == CropCircuit(pk_pcd.PublicKey, proof_in.ImageSignature,
                               ToBigEndian(image.Pixels, MapOf(h, image)),
                               ToFrontendImage(image.Pixels),
                               ToFrontendImage(image.Pixels),
                               ToFr(t).Params)
        run == ProvePipeline(circuit, pk_pcd.ProvingKey, wit)
    IN  [branch |-> "base", outcome |-> run.outcome, heap |-> h,
         verified |-> FALSE, cropErr |-> FALSE, cropped |-> FALSE, signed |-> FALSE,
         keyUsed |-> FALSE, witnessTried |-> TRUE, run |-> run, circuit |-> circuit,
         out |-> Proof(run.proof_out, proof_in.Z, proof_in.ImageSignature,
                       run.publicWitness)]

\* Prover's second branch (Crop or Identity on a Proof that carries a circuit
\* proof).  proof_in is the callee's copy: its pixel array is its own, its
\* metadata map is the caller's.  key is the pair gen.Sign generates.
ProverInductive(pk_pcd, verifyingKey, proof_in, t, h, key, wit) ==
    LET frT == IF t.T = Identity THEN IdentityParams(ToFr(t)) ELSE ToFr(t)
        verified == Groth16Verify(proof_in.PCD_proof, verifyingKey,
                                  proof_in.Public_Witness)
        z_in == proof_in.Z
        crop == ImageCrop(z_in.Image.Pixels, MapOf(h, z_in.Image),
                          frT.Params.X0, frT.Params.Y0, frT.Params.X1, frT.Params.Y1)
        h2 == IF crop.err THEN h ELSE [h EXCEPT ![z_in.Image.M] = crop.md[1]]
        image_out == I(crop.Pixels, z_in.Image.M)
        sg == Sign(image_out, MapOf(h2, image_out), key)
        z_out == Z(image_out, sg.publicKey)
        circuit == CropCircuit(sg.publicKey, sg.normalSignature,
                               sg.big_endian_bytes_Image,
                               ToFrontendImage(z_in.Image.Pixels),
                               ToFrontendImage(z_out.Image.Pixels),
                               frT.Params)
        run == ProvePipeline(circuit, pk_pcd.ProvingKey, wit)
    IN  [branch |-> "inductive", outcome |-> run.outcome, heap |-> h2,
         verified |-> verified, cropErr |-> crop.err,
         cropped |-> (~crop.err), signed |-> TRUE,
         keyUsed |-> TRUE, witnessTried |-> TRUE, run |-> run, circuit |-> circuit,
         out |-> Proof(run.proof_out, z_out, Nil, run.publicWitness)]

\* Prover's last line: any other transformation tag returns Proof{}.
ProverOther(h) ==
    [branch |-> "none", outcome |-> "returned", heap |-> h,
     verified |-> FALSE, cropErr |-> FALSE, cropped |-> FALSE, signed |-> FALSE,
     keyUsed |-> FALSE, witnessTried |-> FALSE,
     run |-> NoRun,
     circuit |-> CropCircuit(NilRef, Nil, Nil, Nil, Nil, Nil),
     out |-> EmptyProof]

Prover(pk_pcd, verifyingKey, proof_in, t, h, key, wit) ==
    IF proof_in.PCD_proof = Nil
    THEN ProverBase(pk_pcd, proof_in, t, h, wit)
    ELSE IF t.T = Crop \/ t.T = Identity
    THEN ProverInductive(pk_pcd, verifyingKey, proof_in, t, h, key, wit)
    ELSE ProverOther(h)

\* editor.EditorCrop
EditorCrop(pk_pcd, verifyingKey, proof, params, h, key, wit) ==
    Prover(pk_pcd, verifyingKey, proof, Transformation(Crop, params), h, key, wit)

\* ------------------------------------------------------------ Verifier
\* Verifier with the error of groth16.Verify read the wrong way round.
Verifier_ErrAccepted(vk_pp, proof, h) ==
    IF proof.PCD_proof = Nil
    THEN SigVerify(vk_pp.PublicKey, proof.ImageSignature,
                   ToBigEndian(proof.Z.Image.Pixels, MapOf(h, proof.Z.Image)))
    ELSE ~Groth16Verify(proof.PCD_proof, vk_pp.VerifyingKey, proof.Public_Witness)

Verifier(vk_pp, proof, h) ==
    IF proof.PCD_proof = Nil
    THEN LET msg == ToBigEndian(proof.Z.Image.Pixels, MapOf(h, proof.Z.Image))
             isVerified == SigVerify(vk_pp.PublicKey, proof.ImageSignature, msg)
         IN  IF isVerified THEN TRUE ELSE FALSE
    ELSE LET err == ~Groth16Verify(proof.PCD_proof, vk_pp.VerifyingKey,
                                   proof.Public_Witness)
         IN  IF err THEN FALSE ELSE TRUE

\* ------------------------------------------------------------ Generator
\* frontend.Compile and groth16.Setup report errors of their own.
CompileError == "CompileError"
SetupError == "SetupError"
\* What groth16.Setup may do when handed the nil constraint system a failed
\* Compile leaves behind: return an error or panic.
NilSetupOutcomes == {"error", "panic"}

\* Generator(image, t): key is the pair gen.Sign generates; it also names the
\* setup.  Compile runs Define, so it fails when the traversal panics; its
\* error is printed, and Setup then runs on the nil constraint system
\* (nilSetup is what it does there).  err is declared once and assigned by
\* Compile and then by Setup.
Generator(image, t, h, key, nRead, nilSetup) ==
    LET sg == Sign(image, MapOf(h, image), key)
        frT == IF t.T = Identity THEN IdentityParams(ToFr(t)) ELSE ToFr(t)
        circuit == CropCircuit(sg.publicKey, sg.normalSignature,
                               sg.big_endian_bytes_Image,
                               ToFrontendImage(image.Pixels),
                               ToFrontendImage(image.Pixels), frT.Params)
        compileErr == CropFrontendImage(circuit, nRead).fault
        err1 == IF compileErr THEN Some(CompileError) ELSE Nil
        setupErr == compileErr
        err2 == IF setupErr THEN Some(SetupError) ELSE Nil
        provingKey == IF setupErr THEN NilRef ELSE key
        verifyingKey == IF setupErr THEN NilRef ELSE key
    IN  [outcome |-> IF compileErr /\ nilSetup = "panic" THEN "panic" ELSE "returned",
         pk |-> PK_PP(provingKey, sg.publicKey),
         vk |-> VK_PP(verifyingKey, sg.publicKey),
         sk |-> sg.secretKey,
         circuit |-> circuit,
         compileErr |-> compileErr, setupErr |-> setupErr, err |-> err2]

\* ------------------------------------------------------------------ state
VARIABLES
    cam,        \* SecureCamera: secretKey, provingKey, verifyingKey, picture
    maps,       \* heap of metadata maps: reference -> contents
    nextKey,    \* next fresh key pair
    held,       \* Proof values callers hold (returned by Prover)
    call,       \* the call that has just returned and what it did (NoCall between calls)
    fn          \* state of the pure-function harnesses

vars == <<cam, maps, nextKey, held, call, fn>>

NoCall == [op |-> "none"]
NoFn == [op |-> "none"]

ProtocolInit ==
    /\ cam = [secretKey |-> NilRef, provingKey |-> PK_PP(NilRef, NilRef),
              verifyingKey |-> VK_PP(NilRef, NilRef), picture |-> ZeroImage]
    /\ maps = << >>
    /\ nextKey = 1
    /\ held = {}
    /\ call = NoCall

Init == ProtocolInit /\ fn = NoFn

\* camera.TakePicture: AllWhiteImage with a fresh metadata map.
TakePicture ==
    /\ call = NoCall
    /\ Len(maps) < MaxPictures
    /\ cam' = [cam EXCEPT !.picture = AllWhiteImage(Len(maps) + 1)]
    /\ maps' = Append(maps, Metadata(N, N))
    /\ call' = [op |-> "TakePicture"]
    /\ UNCHANGED <<nextKey, held, fn>>

\* camera.CameraGenerator: Generator on the picture for Identity; the keys are
\* stored whatever err is. main takes the picture first.
CameraGenerator ==
    /\ call = NoCall
    /\ cam.picture.M # NilRef
    /\ nextKey <= MaxKeys
    /\ \E nRead \in UnassignedReads, nilSetup \in NilSetupOutcomes :
          LET g == Generator(cam.picture, Transformation(Identity, NilParams),
                             maps, nextKey, nRead, nilSetup)
          IN  /\ cam' = IF g.outcome = "returned"
                        THEN [cam EXCEPT !.provingKey = g.pk, !.secretKey = g.sk,
                                         !.verifyingKey = g.vk]
                        ELSE cam
              /\ call' = [op |-> "Generator", t |-> Transformation(Identity, NilParams),
                          outcome |-> g.outcome, pk |-> g.pk, vk |-> g.vk, sk |-> g.sk,
                          circuit |-> g.circuit, err |-> g.err,
                          compileErr |-> g.compileErr, setupErr |-> g.setupErr]
    /\ nextKey' = nextKey + 1
    /\ UNCHANGED <<maps, held, fn>>

\* What a Prover call leaves behind.
ProverEffect(r, proof_in, t) ==
    /\ maps' = r.heap
    /\ nextKey' = IF r.keyUsed THEN nextKey + 1 ELSE nextKey
    /\ held' = IF r.outcome = "returned" THEN held \cup {r.out} ELSE held
    /\ Cardinality(held') <= MaxHeld
    /\ call' = [op |-> "Prover", proof_in |-> proof_in, t |-> t, heapBefore |-> maps,
                branch |-> r.branch, outcome |-> r.outcome, verified |-> r.verified,
                cropErr |-> r.cropErr, cropped |-> r.cropped, signed |-> r.signed,
                witnessTried |-> r.witnessTried, run |-> r.run,
                circuit |-> r.circuit, out |-> r.out]
    /\ UNCHANGED <<cam, fn>>

\* camera.CameraProver: sign the picture with the Generator's secret key and
\* run Prover on it with Identity and nil params.
CameraProver ==
    /\ call = NoCall
    /\ cam.secretKey # NilRef
    /\ LET signedImage == SignMsg(cam.secretKey,
                                  ToBigEndian(cam.picture.Pixels, MapOf(maps, cam.picture)))
           z == Z(cam.picture, cam.provingKey.PublicKey)
           proof == Proof(Nil, z, signedImage, Nil)
           t == Transformation(Identity, NilParams)
       IN  \E wit \in WitnessOutcomes :
              ProverEffect(Prover(cam.provingKey, cam.verifyingKey.VerifyingKey,
                                  proof, t, maps, nextKey, wit), proof, t)

\* Proofs a caller can hand to Prover or Verifier: the ones held, the same with
\* a foreign circuit proof put in, and the empty Proof.
Inputs ==
    held \cup {[p EXCEPT !.PCD_proof = ForeignProof] : p \in held} \cup {EmptyProof}

\* Parameter maps callers pass: valid rectangles (a single inner pixel, a
\* non-square one) and invalid ones (x0 > x1, a negative bound, bounds outside
\* the grid).
ParamChoices ==
    { ParamMap(1, 1, 1, 1), ParamMap(0, 1, 1, N - 1),
      ParamMap(N - 1, 0, 1, 1), ParamMap(-1, 0, 1, 1), ParamMap(0, 0, N, N) }

\* Generator called for the Crop class with a default rectangle, as the
\* holder of a picture does to set up a Crop predicate.
GeneratorCall ==
    /\ call = NoCall
    /\ cam.picture.M # NilRef
    /\ nextKey <= MaxKeys
    /\ \E params \in ParamChoices, nRead \in UnassignedReads,
          nilSetup \in NilSetupOutcomes :
          LET t == Transformation(Crop, params)
              g == Generator(cam.picture, t, maps, nextKey, nRead, nilSetup)
          IN  call' = [op |-> "Generator", t |-> t,
                       outcome |-> g.outcome, pk |-> g.pk, vk |-> g.vk, sk |-> g.sk,
                       circuit |-> g.circuit, err |-> g.err,
                       compileErr |-> g.compileErr, setupErr |-> g.setupErr]
    /\ nextKey' = nextKey + 1
    /\ UNCHANGED <<cam, maps, held, fn>>

\* main: editor.EditorCrop(pk_pp, vk_pp.VerifyingKey, proof, params)
EditorCropCall ==
    /\ call = NoCall
    /\ cam.secretKey # NilRef
    /\ nextKey <= MaxKeys
    /\ \E proof \in Inputs, params \in ParamChoices, wit \in WitnessOutcomes :
          ProverEffect(EditorCrop(cam.provingKey, cam.verifyingKey.VerifyingKey,
                                  proof, params, maps, nextKey, wit),
                       proof, Transformation(Crop, params))

\* Prover called directly with Identity or with a tag that is neither.
ProverCall ==
    /\ call = NoCall
    /\ cam.secretKey # NilRef
    /\ nextKey <= MaxKeys
    /\ \E proof \in Inputs, tag \in {Identity, Crop + 1}, wit \in WitnessOutcomes :
          LET t == Transformation(tag, NilParams)
          IN  ProverEffect(Prover(cam.provingKey, cam.verifyingKey.VerifyingKey,
                                  proof, t, maps, nextKey, wit), proof, t)

\* main: verifier.Verifier(vk_pp, proof)
VerifierCall ==
    /\ call = NoCall
    /\ cam.secretKey # NilRef
    /\ \E proof \in Inputs :
          call' = [op |-> "Verifier", proof |-> proof,
                   result |-> Verifier(cam.verifyingKey, proof, maps)]
    /\ UNCHANGED <<cam, maps, nextKey, held, fn>>

\* main: a call has returned; main goes on to its next statement.
Return ==
    /\ call # NoCall
    /\ call' = NoCall
    /\ UNCHANGED <<cam, maps, nextKey, held, fn>>

Next ==
    \/ TakePicture
    \/ CameraGenerator
    \/ GeneratorCall
    \/ CameraProver
    \/ EditorCropCall
    \/ ProverCall
    \/ VerifierCall
    \/ Return

Spec == Init /\ [][Next]_vars

\* ------------------------------------------------- area-membership harness
\* InArea applied to every point and rectangle with coordinates 0 .. MaxCoord.
Coord == 0 .. MaxCoord

AreaInit ==
    /\ ProtocolInit
    /\ \E x \in Coord, y \in Coord, x0 \in Coord, y0 \in Coord,
          x1 \in Coord, y1 \in Coord :
          /\ x0 <= x1 /\ y0 <= y1
          /\ fn = [op |-> "args", x |-> x, y |-> y,
                   area |-> Fr_SquareArea(Fr_Location(x0, y0), Fr_Location(x1, y1))]

AreaApply ==
    /\ fn.op = "args"
    /\ fn' = [fn EXCEPT !.op = "InArea"] @@ [result |-> InArea(fn.x, fn.y, fn.area)]
    /\ UNCHANGED <<cam, maps, nextKey, held, call>>

AreaNext == AreaApply

SpecArea == AreaInit /\ [][AreaNext]_vars

\* ------------------------------------------------------ Crop circuit harness
\* The Crop circuit on the assignment Prover's inductive step builds, for a
\* few images and every valid rectangle, traversed one loop iteration at a time.
GradientPixels == [y \in Idx |-> [x \in Idx |-> RGBPixel(1 + y * N + x, 0, 255)]]
ImageChoices == {AllPixels(whitePixel), AllPixels(blackPixel), GradientPixels}

ValidRect(x0, y0, x1, y1) ==
    0 <= x0 /\ x0 <= x1 /\ x1 < N /\ 0 <= y0 /\ y0 <= y1 /\ y1 < N

CircuitInit ==
    /\ cam = [secretKey |-> 1, provingKey |-> PK_PP(1, 1),
              verifyingKey |-> VK_PP(1, 1), picture |-> ZeroImage]
    /\ maps = <<Metadata(N, N)>>
    /\ nextKey = MaxKeys
    /\ held = {}
    /\ call = NoCall
    /\ \E pixels \in ImageChoices, x0 \in Idx, y0 \in Idx, x1 \in Idx, y1 \in Idx,
          nRead \in UnassignedReads :
          /\ ValidRect(x0, y0, x1, y1)
          /\ LET proof_in == Proof(ForeignProof, Z(I(pixels, 1), 1), Nil, Nil)
                 r == ProverInductive(cam.provingKey, cam.verifyingKey.VerifyingKey,
                                      proof_in, Transformation(Crop, ParamMap(x0, y0, x1, y1)),
                                      maps, nextKey, Some(nRead))
             IN  fn = [op |-> "circuit", pixels |-> pixels,
                       rect |-> CropParams(Nil, x0, y0, x1, y1),
                       circuit |-> r.circuit, nRead |-> nRead,
                       k |-> 0, st |-> CropStart]

\* One iteration of CropFrontendImage's loop.
CropStep ==
    /\ fn.op \in {"circuit", "CropIter"}
    /\ fn.k < N * N
    /\ ~fn.st.fault
    /\ LET x == fn.k % N
           y == fn.k \div N
       IN  fn' = [op |-> "CropIter", pixels |-> fn.pixels, rect |-> fn.rect,
                  circuit |-> fn.circuit, nRead |-> fn.nRead,
                  k |-> fn.k + 1,
                  st |-> CropIter(fn.st, fn.circuit, fn.nRead, x, y),
                  x |-> x, y |-> y,
                  newX |-> NewX(x, y, fn.circuit.Params),
                  newY |-> NewY(x, y, fn.circuit.Params)]
    /\ UNCHANGED <<cam, maps, nextKey, held, call>>

\* The traversal is over (or has panicked): Define's verdict on the assignment,
\* next to what Image.Crop makes of the same image and rectangle.
CropDefine ==
    /\ fn.op \in {"circuit", "CropIter"}
    /\ fn.k = N * N \/ fn.st.fault
    /\ fn' = [op |-> "Define", pixels |-> fn.pixels, rect |-> fn.rect,
              circuit |-> fn.circuit, nRead |-> fn.nRead, k |-> fn.k, st |-> fn.st,
              croppedImage_out |-> CropFrontendImage(fn.circuit, fn.nRead),
              cropped |-> ImageCrop(fn.pixels, Some(Metadata(N, N)),
                                    fn.rect.X0, fn.rect.Y0, fn.rect.X1, fn.rect.Y1),
              define |-> Define(fn.circuit, fn.nRead)]
    /\ UNCHANGED <<cam, maps, nextKey, held, call>>

CircuitNext == CropStep \/ CropDefine

SpecCircuit == CircuitInit /\ [][CircuitNext]_vars

\* ------------------------------------------------------------ image harness
\* Image.Crop applied, again and again, to an image: a captured one (metadata
\* as AllWhiteImage writes it), or one whose map is nil (I{}), empty
\* (NewImage), lacks height, or holds a width that is not an int.
EmptyMap == [k \in {} |-> 0]
MetadataChoices ==
    { Some(Metadata(N, N)), Nil, Some(EmptyMap),
      Some([k \in {"Author", "N", "width"} |-> Metadata(N, N)[k]]),
      Some([Metadata(N, N) EXCEPT !.width = StrVal("wide")]) }

\* Arguments given to Crop, SetPixel and GetPixel: the grid and one step
\* outside it on either side.
ArgRange == -1 .. N

ImageInit ==
    /\ ProtocolInit
    /\ \E pixels \in {AllPixels(whitePixel), GradientPixels}, md \in MetadataChoices :
          fn = [op |-> "image", Pixels |-> pixels, md |-> md]

\* img.Crop(x0, y0, x1, y1) on the current image.
ImgCrop ==
    /\ fn.op = "image"
    /\ \E x0 \in ArgRange, y0 \in ArgRange, x1 \in ArgRange, y1 \in ArgRange :
          LET r == ImageCrop(fn.Pixels, fn.md, x0, y0, x1, y1)
          IN  fn' = [op |-> "Crop", Pixels |-> r.Pixels, md |-> r.md, err |-> r.err,
                     before |-> [Pixels |-> fn.Pixels, md |-> fn.md],
                     rect |-> <<x0, y0, x1, y1>>]
    /\ UNCHANGED <<cam, maps, nextKey, held, call>>

\* The caller goes on with the image as Crop left it.
ImgContinue ==
    /\ fn.op = "Crop"
    /\ fn' = [op |-> "image", Pixels |-> fn.Pixels, md |-> fn.md]
    /\ UNCHANGED <<cam, maps, nextKey, held, call>>

ImageNext == ImgCrop \/ ImgContinue

SpecImage == ImageInit /\ [][ImageNext]_vars

\* ----------------------------------------------------- pixel-access harness
\* SetPixel and GetPixel on a captured image, with arguments in and out of the
\* grid.  written remembers, per grid cell, the last colour SetPixel was
\* given for it.
PixelChoices == {blackPixel, RGBPixel(1, 2, 3)}

PixelInit ==
    /\ ProtocolInit
    /\ fn = [op |-> "pixels", Pixels |-> AllPixels(whitePixel),
             md |-> Some(Metadata(N, N)),
             written |-> [c \in Idx \X Idx |-> Nil], writes |-> 0]

\* img.SetPixel(x, y, color)
PixSetPixel ==
    /\ fn.op = "pixels"
    /\ fn.writes < MaxWrites
    /\ \E x \in ArgRange, y \in ArgRange, color \in PixelChoices :
          fn' = [op |-> "SetPixel", Pixels |-> SetPixel(fn.Pixels, x, y, color),
                 md |-> fn.md,
                 written |-> IF <<x, y>> \in Idx \X Idx
                             THEN [fn.written EXCEPT ![<<x, y>>] = Some(color)]
                             ELSE fn.written,
                 writes |-> fn.writes + 1,
                 before |-> [Pixels |-> fn.Pixels, md |-> fn.md],
                 x |-> x, y |-> y, color |-> color]
    /\ UNCHANGED <<cam, maps, nextKey, held, call>>

\* img.GetPixel(x, y)
PixGetPixel ==
    /\ fn.op = "pixels"
    /\ \E x \in ArgRange, y \in ArgRange :
          fn' = [op |-> "GetPixel", Pixels |-> fn.Pixels, md |-> fn.md,
                 written |-> fn.written, writes |-> fn.writes,
                 x |-> x, y |-> y, result |-> GetPixel(fn.Pixels, x, y)]
    /\ UNCHANGED <<cam, maps, nextKey, held, call>>

\* The caller goes on with the image.
PixContinue ==
    /\ fn.op \in {"SetPixel", "GetPixel"}
    /\ fn' = [op |-> "pixels", Pixels |-> fn.Pixels, md |-> fn.md,
              written |-> fn.written, writes |-> fn.writes]
    /\ UNCHANGED <<cam, maps, nextKey, held, call>>

PixelNext == PixSetPixel \/ PixGetPixel \/ PixContinue

SpecPixel == PixelInit /\ [][PixelNext]_vars

\* ================================================================== claims
\* The proof is an image signed by the camera under the Generator's signer key
\* (heap h gives the metadata the signature covers).
CameraSigned(proof, h) ==
    SigVerify(cam.verifyingKey.PublicKey, proof.ImageSignature,
              ToBigEndian(proof.Z.Image.Pixels, MapOf(h, proof.Z.Image)))

\* The last call was a Prover call that reached the proving pipeline and one
\* of its steps (witness, compile, prove) failed.
PipelineFailed ==
    /\ call.op = "Prover"
    /\ call.run.outcome # "none"
    /\ (call.run.witnessErr \/ call.run.compileErr \/ call.run.proveErr)

\* Prover returned a Proof that carries a circuit proof the Verifier accepts
\* under the Generator's verifying key.
ReturnedAcceptedProof ==
    /\ call.outcome = "returned"
    /\ call.out.PCD_proof # Nil
    /\ Verifier(cam.verifyingKey, call.out, maps)

\* C1: with the Generator's keys, Prover applied with Identity to the Unproven
\* proof (image, signature under the Generator's signer key, no circuit proof)
\* returns a circuit proof that the Verifier accepts under the verifying key.
C1_IdentityBootstrapAccepted ==
    ( /\ call.op = "Prover"
      /\ call.proof_in.PCD_proof = Nil
      /\ call.proof_in.Public_Witness = Nil
      /\ call.t.T = Identity
      /\ CameraSigned(call.proof_in, call.heapBefore) )
    => ReturnedAcceptedProof

\* C2: Prover applied with Crop on a valid rectangle to the proof the
\* bootstrap step returned for the camera's image returns a circuit proof
\* that the Verifier accepts under the verifying key.
C2_ValidCropAccepted ==
    ( /\ call.op = "Prover"
      /\ call.t.T = Crop
      /\ ValidRect(MapGet(call.t.Params, "x0"), MapGet(call.t.Params, "y0"),
                   MapGet(call.t.Params, "x1"), MapGet(call.t.Params, "y1"))
      /\ call.proof_in \in held
      /\ call.proof_in.Public_Witness # Nil
      /\ CameraSigned(call.proof_in, call.heapBefore) )
    => ReturnedAcceptedProof

\* C4: when the incoming circuit proof fails verification in Prover's
\* inductive step the transition is aborted: the image is not cropped, no
\* signature is made, the metadata is untouched and no Proven output returns.
C4_FailedVerificationAborts ==
    ( /\ call.op = "Prover"
      /\ call.branch = "inductive"
      /\ ~call.verified )
    => /\ ~call.cropped
       /\ ~call.signed
       /\ maps = call.heapBefore
       /\ ~(call.outcome = "returned" /\ call.out.PCD_proof # Nil)

\* C5: Verifier returns true exactly when the check matching the Proof's
\* variant succeeds: without a circuit proof, the signature over the image's
\* encoding under vk_pp.PublicKey; with one, backend verification of PCD_proof
\* against vk_pp.VerifyingKey and the Proof's public witness.
C5_VerifierDispatch ==
    call.op = "Verifier" =>
        ( call.result = TRUE <=>
            IF call.proof.PCD_proof = Nil
            THEN CameraSigned(call.proof, maps)
            ELSE Groth16Verify(call.proof.PCD_proof, cam.verifyingKey.VerifyingKey,
                               call.proof.Public_Witness) )

\* C5 witness: the Verifier accepted a base-case Proof signed by the camera.
C5_Witness ==
    /\ call.op = "Verifier"
    /\ call.proof.PCD_proof = Nil
    /\ call.proof.ImageSignature # Nil
    /\ call.result = TRUE

\* C6: InArea is true exactly for the points with topLeft.X <= x <=
\* bottomRight.X and topLeft.Y <= y <= bottomRight.Y, bounds included.
C6_InAreaIffInside ==
    fn.op = "InArea" =>
        ( fn.result = 1 <=>
            /\ fn.area.topLeft.X <= fn.x /\ fn.x <= fn.area.bottomRight.X
            /\ fn.area.topLeft.Y <= fn.y /\ fn.y <= fn.area.bottomRight.Y )

\* C7: for every grid coordinate (x, y) the Crop circuit's destination
\* coordinate is (x - x0, y - y0).
C7_DestinationPerAxis ==
    fn.op = "CropIter" =>
        /\ fn.newX = fn.x - fn.rect.X0
        /\ fn.newY = fn.y - fn.rect.Y0

\* C8: for a valid rectangle the grid CropFrontendImage computes equals,
\* pixel for pixel, the grid Image.Crop produces from the same input, and
\* Define is satisfied by the assignment Prover builds.
C8_CircuitMatchesImageCrop ==
    fn.op = "Define" =>
        /\ ~fn.croppedImage_out.fault
        /\ \A a \in Idx, b \in Idx :
              fn.croppedImage_out.img[a][b] = fn.cropped.Pixels[a][b]
        /\ fn.define = "ok"

\* C9: a Crop whose parameters are invalid makes Prover fail before any
\* witness construction; no signature and no proof is produced, and nothing
\* is returned as a Proof.
C9_InvalidParamsRejected ==
    ( /\ call.op = "Prover"
      /\ call.t.T = Crop
      /\ ~ValidRect(MapGet(call.t.Params, "x0"), MapGet(call.t.Params, "y0"),
                    MapGet(call.t.Params, "x1"), MapGet(call.t.Params, "y1")) )
    => /\ ~call.witnessTried
       /\ ~call.signed
       /\ call.outcome # "returned"

\* C10: when witness construction, compilation or proving fails inside
\* Prover, the call never returns a Proof without a circuit proof.
C10_FailureNeverReturnsZeroProof ==
    PipelineFailed => ~(call.outcome = "returned" /\ call.out.PCD_proof = Nil)

\* C11: when compilation or setup fails, Generator returns a non-nil error,
\* the error returned for a failed compilation is the compilation error (a
\* later step does not replace it), and no proving or verifying key is
\* handed back.
C11_GeneratorReportsFailure ==
    ( /\ call.op = "Generator"
      /\ (call.compileErr \/ call.setupErr) )
    => /\ call.outcome = "returned"
       /\ call.err # Nil
       /\ (call.compileErr => call.err = Some(CompileError))
       /\ call.pk.ProvingKey = NilRef
       /\ call.vk.VerifyingKey = NilRef

\* A Proof in one of its two well-formed states: base case (no circuit proof,
\* a signature) or inductive (a circuit proof with its public witness).
WellFormed(proof) ==
    IF proof.PCD_proof = Nil
    THEN proof.ImageSignature # Nil
    ELSE proof.Public_Witness # Nil

\* C12: every Proof that Prover returns for a well-formed Proof is well
\* formed: it has a circuit proof with its public witness, or else a
\* signature; never neither, whatever the transformation tag.
C12_ReturnedProofWellFormed ==
    ( /\ call.op = "Prover"
      /\ call.outcome = "returned"
      /\ WellFormed(call.proof_in) )
    => WellFormed(call.out)

\* C13: a Prover call leaves what its caller holds unchanged: the metadata
\* (width and height included) of the image in the Proof passed in and of the
\* camera's picture are after the call what they were before it.  (The pixel
\* arrays and the signature are copied into the call and cannot change.)
C13_ProverLeavesCallerState ==
    call.op = "Prover" =>
        /\ MapOf(maps, call.proof_in.Z.Image)
               = MapOf(call.heapBefore, call.proof_in.Z.Image)
        /\ MapOf(maps, cam.picture) = MapOf(call.heapBefore, cam.picture)

\* The image a Prover call put in the Proof it returned, with its metadata as
\* heap h holds it, and the Verifier's verdict on that Proof.
OutputOf(out, h) ==
    [Pixels |-> out.Z.Image.Pixels, md |-> MapOf(h, out.Z.Image),
     accepted |-> Verifier(cam.verifyingKey, out, h)]

\* C14: a Prover call made again with the same prior Proof and the same
\* transformation returns the same output image (pixels and metadata) and
\* gets the same verdict from the Verifier as the call just made.
C14_ProverIsFunctionOfInputs ==
    ( /\ call.op = "Prover"
      /\ call.outcome = "returned" )
    => \A wit \in WitnessOutcomes :
          LET again == Prover(cam.provingKey, cam.verifyingKey.VerifyingKey,
                              call.proof_in, call.t, maps, nextKey, wit)
          IN  again.outcome = "returned"
                  => OutputOf(again.out, again.heap) = OutputOf(call.out, maps)

\* The rectangle a circuit assignment carries, and the full-image rectangle.
RectOf(params) == <<params.X0, params.Y0, params.X1, params.Y1>>
FullRect == <<0, 0, N - 1, N - 1>>

\* C15: wherever a transformation becomes a circuit rectangle (Generator,
\* Prover's base case, Prover's inductive case) Identity gives the rectangle
\* (0, 0, N-1, N-1), and Prover with Identity returns the same output image
\* and gets the same verdict as Prover with Crop(0, 0, N-1, N-1) on the same
\* prior Proof.
C15_IdentityIsFullCrop ==
    /\ ( call.op = "Generator" /\ call.t.T = Identity )
          => RectOf(call.circuit.Params) = FullRect
    /\ ( call.op = "Prover" /\ call.t.T = Identity )
          => /\ RectOf(call.circuit.Params) = FullRect
             /\ \A wit \in WitnessOutcomes :
                   LET asCrop == Prover(cam.provingKey, cam.verifyingKey.VerifyingKey,
                                        call.proof_in,
                                        Transformation(Crop, ParamMap(0, 0, N - 1, N - 1)),
                                        call.heapBefore, nextKey, wit)
                   IN  (call.outcome = "returned" /\ asCrop.outcome = "returned")
                          => OutputOf(asCrop.out, asCrop.heap) = OutputOf(call.out, maps)

\* C17: in Prover's inductive step the ImageBytes message of the circuit
\* assignment is the byte encoding of the image as it came in (the image
\* given as FrImage), and ImageSignature is a signature over that message.
C17_SignatureOverPreImage ==
    ( /\ call.op = "Prover"
      /\ call.branch = "inductive" )
    => LET pre == call.proof_in.Z.Image
           preBytes == ToBigEndian(pre.Pixels, MapOf(call.heapBefore, pre))
       IN  /\ call.circuit.FrImage = ToFrontendImage(pre.Pixels)
           /\ call.circuit.ImageBytes = preBytes
           /\ call.circuit.ImageSignature # Nil
           /\ call.circuit.ImageSignature[1].msg = preBytes

\* C16: Image.Crop to the full bounds (0, 0, N-1, N-1) leaves the image as it
\* was, pixels and metadata.
C16_FullCropIsIdentity ==
    ( fn.op = "Crop" /\ fn.rect = FullRect )
    => /\ fn.Pixels = fn.before.Pixels
       /\ fn.md = fn.before.md

\* C16 witness: a full-bounds Crop succeeded on the captured gradient image.
C16_Witness ==
    /\ fn.op = "Crop"
    /\ fn.rect = FullRect
    /\ ~fn.err
    /\ fn.before.Pixels = GradientPixels

\* C18: SetPixel with x or y outside 0 .. N-1 changes no pixel and no
\* metadata; GetPixel with x or y outside 0 .. N-1 returns the black pixel;
\* inside the grid GetPixel(x, y) returns the colour last given to
\* SetPixel(x, y, .).
C18_PixelAccess ==
    /\ ( fn.op = "SetPixel" /\ (fn.x \notin Idx \/ fn.y \notin Idx) )
          => (fn.Pixels = fn.before.Pixels /\ fn.md = fn.before.md)
    /\ ( fn.op = "GetPixel" /\ (fn.x \notin Idx \/ fn.y \notin Idx) )
          => fn.result = RGBPixel(0, 0, 0)
    /\ ( fn.op = "GetPixel" /\ fn.x \in Idx /\ fn.y \in Idx
            /\ fn.written[<<fn.x, fn.y>>] # Nil )
          => fn.result = fn.written[<<fn.x, fn.y>>][1]

\* C18 witness: GetPixel read back, off the diagonal, a colour that a second
\* SetPixel had written.
C18_Witness ==
    /\ fn.op = "GetPixel"
    /\ fn.x \in Idx /\ fn.y \in Idx /\ fn.x # fn.y
    /\ fn.writes = MaxWrites
    /\ fn.written[<<fn.x, fn.y>>] = Some(RGBPixel(1, 2, 3))
    /\ fn.result = RGBPixel(1, 2, 3)

\* The rectangle of the last Crop lies inside the width and height the image's
\* metadata held (as ints) before the call, corners in order.
RectWithinMetadata ==
    LET width == AsInt(fn.before.md, "width")
        height == AsInt(fn.before.md, "height")
    IN  /\ width.ok /\ height.ok
        /\ 0 <= fn.rect[1] /\ fn.rect[1] <= fn.rect[3] /\ fn.rect[3] < width.v
        /\ 0 <= fn.rect[2] /\ fn.rect[2] <= fn.rect[4] /\ fn.rect[4] < height.v

C20_CropErrorLeavesImage ==
    ( fn.op = "Crop" /\ ~RectWithinMetadata )
    => /\ fn.err
       /\ fn.Pixels = fn.before.Pixels
       /\ fn.md = fn.before.md

\* C20 witness: Crop refused a rectangle inside the captured gradient image
\* whose corners are out of order.
C20_Witness ==
    /\ fn.op = "Crop"
    /\ fn.err
    /\ fn.before.Pixels = GradientPixels
    /\ fn.before.md = Some(Metadata(N, N))
    /\ \A i \in 1 .. 4 : fn.rect[i] \in Idx
    /\ fn.rect[1] > fn.rect[3]

\* C21: after any sequence of Crop calls on a captured image, failed ones
\* included, 1 <= width <= N and 1 <= height <= N, a call never leaves width
\* or height larger than it found them, and every pixel (x, y) with
\* x >= width or y >= height is black.
C21_CropKeepsDimensions ==
    ( fn.op \in {"image", "Crop"}
      /\ AsInt(fn.md, "width").ok /\ AsInt(fn.md, "height").ok )
    => LET width == AsInt(fn.md, "width").v
           height == AsInt(fn.md, "height").v
       IN  /\ 1 <= width /\ width <= N
           /\ 1 <= height /\ height <= N
           /\ \A x \in Idx, y \in Idx :
                 (x >= width \/ y >= height)
                     => GetPixel(fn.Pixels, x, y) = RGBPixel(0, 0, 0)
           /\ fn.op = "Crop"
                 => /\ width <= AsInt(fn.before.md, "width").v
                    /\ height <= AsInt(fn.before.md, "height").v

\* C21 witness: a second Crop of the all-white image narrowed it again and
\* kept its first pixel.
C21_Witness ==
    /\ fn.op = "Crop"
    /\ ~fn.err
    /\ AsInt(fn.before.md, "width").v < N
    /\ AsInt(fn.md, "width").v < AsInt(fn.before.md, "width").v
    /\ GetPixel(fn.Pixels, 0, 0) = whitePixel

\* C22: for every grid coordinate and every valid rectangle the indices
\* CropFrontendImage uses to write the output grid lie in 0 .. N-1, and the
\* traversal does not fault.
C22_DestinationInGrid ==
    fn.op = "CropIter" =>
        /\ fn.newX \in Idx
        /\ fn.newY \in Idx
        /\ ~fn.st.fault

\* C23: for every valid rectangle, when the traversal completes each of the
\* N x N cells of the grid CropFrontendImage returns holds a value, so Define
\* compares two defined values at every coordinate.
C23_EveryCellDefined ==
    ( fn.op = "Define" /\ ~fn.croppedImage_out.fault )
    => \A a \in Idx, b \in Idx : fn.croppedImage_out.img[a][b] # Undef

====
